---- MODULE Spec2Model ----
(***************************************************************************)
(* Model of src/app.py: MemoryDataStore (a dict-backed document store) and *)
(* LLamaIndexRetriever (looks a document up by key and hands its body to   *)
(* the external index's search).                                           *)
(*                                                                         *)
(* Python values are records [type, value] of two strings, so that any two *)
(* of them can be compared: None, str documents, the lists an index        *)
(* returns and the exceptions it raises.  A method is an operator from the *)
(* state it reads to its outcome (return or raise, the value, the store it *)
(* leaves behind, the arguments of the search calls it made); an action    *)
(* applies the operator and records the outcome in `last`.                 *)
(***************************************************************************)
EXTENDS Integers, Sequences, FiniteSets, TLC

\* ------------------------------------------------------------- bounds ----
\* cap on the number of search invocations (and of retrieve calls that hit)
MaxSearches == 3

\* ------------------------------------------------------ Python values ----
None == [type |-> "NoneType", value |-> "None"]
Str(s) == [type |-> "str", value |-> s]
List(s) == [type |-> "list", value |-> s]
Exc(t, msg) == [type |-> t, value |-> msg]

\* keys and document bodies the callers use: both are str, as the docstring
\* of add_document declares them, the empty string included
Keys == {"doc1", ""}
Documents == {Str(""), Str("X"), Str("Y")}

\* what the external index's search can do: return an opaque value or raise
Results == {List("['match-A']"), List("[]"), None}
Failures == {Exc("RuntimeError", "index offline"), Exc("TimeoutError", "search timed out")}
SearchOutcomes ==
    {[kind |-> "return", value |-> r] : r \in Results}
        \cup {[kind |-> "raise", value |-> e] : e \in Failures}

\* references a caller can pass to LLamaIndexRetriever(index, data_store)
IndexRef == [type |-> "LLamaIndex", value |-> "llama_index"]
StoreRef == [type |-> "MemoryDataStore", value |-> "data_store"]
\* attribute access on None (None.search, None.get_document)
NoneAttributeError(attr) ==
    Exc("AttributeError", "'NoneType' object has no attribute " \o attr)

\* marker of the bookkeeping variables: nothing recorded yet
Unset == [type |-> "<unset>", value |-> ""]
NoAdapter == [index |-> Unset, data_store |-> Unset]

VARIABLES
    store,        \* MemoryDataStore.store: the dict, a function on the keys present
    adapter,      \* the LLamaIndexRetriever in use: [index, data_store], or NoAdapter
    last,         \* the most recent call and what its caller observed
    written,      \* per key, the document of the most recent add_document call
    first,        \* per key, the document of the first add_document call
    forwarded,    \* per key, the document the last retrieve(key) passed to search
    ctor,         \* the arguments the adapter in use was constructed with
    searchCount,  \* search invocations so far
    hits          \* retrieve calls so far on a present key with index and store set

vars == <<store, adapter, last, written, first, forwarded, ctor, searchCount, hits>>

\* ------------------------------------------------------ MemoryDataStore --
EmptyDict == [k \in {} |-> None]

\* __init__: self.store = {}
MemoryDataStore_init == EmptyDict

\* plausible slip: every other entry is dropped (self.store = {key: document})
add_document_reset(self_store, key, document) ==
    [ret |-> None, store |-> [k \in {key} |-> document]]

\* plausible slip: the first write wins (self.store.setdefault(key, document))
add_document_keep_first(self_store, key, document) ==
    [ret |-> None,
     store |-> [k \in DOMAIN self_store \cup {key} |->
                   IF k \in DOMAIN self_store THEN self_store[k] ELSE document]]

\* self.store[key] = document
add_document(self_store, key, document) ==
    [ret |-> None,
     store |-> [k \in DOMAIN self_store \cup {key} |->
                   IF k = key THEN document ELSE self_store[k]]]

\* plausible slip: a default other than None (self.store.get(key, ""))
get_document_default_empty(self_store, key) ==
    [ret |-> IF key \in DOMAIN self_store THEN self_store[key] ELSE Str(""),
     store |-> self_store]

\* plausible slip: the lookup inserts the key (self.store.setdefault(key, None))
get_document_setdefault(self_store, key) ==
    [ret |-> IF key \in DOMAIN self_store THEN self_store[key] ELSE None,
     store |-> [k \in DOMAIN self_store \cup {key} |->
                   IF k \in DOMAIN self_store THEN self_store[k] ELSE None]]

\* return self.store.get(key, None)
get_document(self_store, key) ==
    [ret |-> IF key \in DOMAIN self_store THEN self_store[key] ELSE None,
     store |-> self_store]

\* -------------------------------------------------- LLamaIndexRetriever --
\* plausible slip: the constructor rejects a missing index or store
LLamaIndexRetriever_init_validating(index, data_store) ==
    IF index = None \/ data_store = None
    THEN [kind |-> "raise", value |-> Exc("ValueError", "index and data_store are required"),
          self |-> NoAdapter]
    ELSE [kind |-> "return", value |-> None,
          self |-> [index |-> index, data_store |-> data_store]]

\* self.index = index; self.data_store = data_store
LLamaIndexRetriever_init(index, data_store) ==
    [kind |-> "return", value |-> None,
     self |-> [index |-> index, data_store |-> data_store]]

\* self.index.search(document): the attribute lookup fails on None before any
\* call is made; otherwise the index is invoked once and answers `search`
index_search(index, document, search) ==
    IF index = None
    THEN [kind |-> "raise", value |-> NoneAttributeError("'search'"), calls |-> <<>>]
    ELSE [kind |-> search.kind, value |-> search.value, calls |-> <<document>>]

\* plausible slip: truthiness instead of `is not None` (if document:)
retrieve_truthy(self, heap_store, key, search) ==
    IF self.data_store = None
    THEN [kind |-> "raise", value |-> NoneAttributeError("'get_document'"),
          calls |-> <<>>, store |-> heap_store]
    ELSE LET g == get_document(heap_store, key)
             document == g.ret
         IN  IF document # None /\ document # Str("")
             THEN LET result == index_search(self.index, document, search)
                  IN  [kind |-> result.kind, value |-> result.value,
                       calls |-> result.calls, store |-> g.store]
             ELSE [kind |-> "return", value |-> None, calls |-> <<>>, store |-> g.store]

\* plausible slip: search runs whether or not the document was found
retrieve_unconditional(self, heap_store, key, search) ==
    IF self.data_store = None
    THEN [kind |-> "raise", value |-> NoneAttributeError("'get_document'"),
          calls |-> <<>>, store |-> heap_store]
    ELSE LET g == get_document(heap_store, key)
             document == g.ret
             result == index_search(self.index, document, search)
         IN  [kind |-> result.kind, value |-> result.value,
              calls |-> result.calls, store |-> g.store]

\* plausible slip: the result is wrapped instead of returned as it came
retrieve_wrapped(self, heap_store, key, search) ==
    IF self.data_store = None
    THEN [kind |-> "raise", value |-> NoneAttributeError("'get_document'"),
          calls |-> <<>>, store |-> heap_store]
    ELSE LET g == get_document(heap_store, key)
             document == g.ret
         IN  IF document # None
             THEN LET result == index_search(self.index, document, search)
                  IN  [kind |-> result.kind,
                       value |-> IF result.kind = "return"
                                 THEN List("[" \o result.value.value \o "]")
                                 ELSE result.value,
                       calls |-> result.calls, store |-> g.store]
             ELSE [kind |-> "return", value |-> None, calls |-> <<>>, store |-> g.store]

\* plausible slip: a failing search is caught and reported as "not found"
retrieve_swallow(self, heap_store, key, search) ==
    IF self.data_store = None
    THEN [kind |-> "raise", value |-> NoneAttributeError("'get_document'"),
          calls |-> <<>>, store |-> heap_store]
    ELSE LET g == get_document(heap_store, key)
             document == g.ret
         IN  IF document # None
             THEN LET result == index_search(self.index, document, search)
                  IN  [kind |-> "return",
                       value |-> IF result.kind = "return" THEN result.value ELSE None,
                       calls |-> result.calls, store |-> g.store]
             ELSE [kind |-> "return", value |-> None, calls |-> <<>>, store |-> g.store]

\* plausible slip: the document fetched for a key is memoised across calls
\* (the cache is the document last forwarded for that key)
retrieve_cached(self, heap_store, key, search) ==
    IF self.data_store = None
    THEN [kind |-> "raise", value |-> NoneAttributeError("'get_document'"),
          calls |-> <<>>, store |-> heap_store]
    ELSE LET g == get_document(heap_store, key)
             document == IF forwarded[key] # Unset THEN forwarded[key] ELSE g.ret
         IN  IF document # None
             THEN LET result == index_search(self.index, document, search)
                  IN  [kind |-> result.kind, value |-> result.value,
                       calls |-> result.calls, store |-> g.store]
             ELSE [kind |-> "return", value |-> None, calls |-> <<>>, store |-> g.store]

\* document = self.data_store.get_document(key)
\* if document is not None: result = self.index.search(document); return result
\* else: return None
retrieve(self, heap_store, key, search) ==
    IF self.data_store = None
    THEN [kind |-> "raise", value |-> NoneAttributeError("'get_document'"),
          calls |-> <<>>, store |-> heap_store]
    ELSE LET g == get_document(heap_store, key)
             document == g.ret
         IN  IF document # None
             THEN LET result == index_search(self.index, document, search)
                  IN  [kind |-> result.kind, value |-> result.value,
                       calls |-> result.calls, store |-> g.store]
             ELSE [kind |-> "return", value |-> None, calls |-> <<>>, store |-> g.store]

\* ---------------------------------------------------------- the calls ----
NoCall ==
    [op |-> "none", key |-> "", arg |-> Unset, kind |-> "return", value |-> None,
     calls |-> <<>>, oracle |-> [kind |-> "return", value |-> Unset], prev |-> Unset]

Init ==
    /\ store = MemoryDataStore_init
    /\ adapter = NoAdapter
    /\ last = NoCall
    /\ written = [k \in Keys |-> Unset]
    /\ first = [k \in Keys |-> Unset]
    /\ forwarded = [k \in Keys |-> Unset]
    /\ ctor = NoAdapter
    /\ searchCount = 0
    /\ hits = 0

\* data_store.add_document(key, document)
AddDocument(key, document) ==
    LET r == add_document(store, key, document)
    IN  /\ store' = r.store
        /\ written' = [written EXCEPT ![key] = document]
        /\ first' = IF first[key] = Unset THEN [first EXCEPT ![key] = document] ELSE first
        /\ last' = [NoCall EXCEPT !.op = "add_document", !.key = key, !.arg = document,
                                  !.value = r.ret]
        /\ UNCHANGED <<adapter, forwarded, ctor, searchCount, hits>>

\* data_store.get_document(key)
GetDocument(key) ==
    LET r == get_document(store, key)
    IN  /\ store' = r.store
        /\ last' = [NoCall EXCEPT !.op = "get_document", !.key = key, !.value = r.ret]
        /\ UNCHANGED <<adapter, written, first, forwarded, ctor, searchCount, hits>>

\* retriever = LLamaIndexRetriever(index, data_store); the call's two
\* arguments are kept in last.arg (index) and last.prev (data_store)
Construct(index, data_store) ==
    LET r == LLamaIndexRetriever_init(index, data_store)
    IN  /\ adapter' = IF r.kind = "return" THEN r.self ELSE adapter
        /\ ctor' = IF r.kind = "return"
                   THEN [index |-> index, data_store |-> data_store] ELSE ctor
        /\ last' = [NoCall EXCEPT !.op = "__init__", !.kind = r.kind, !.value = r.value,
                                  !.arg = index, !.prev = data_store]
        /\ UNCHANGED <<store, written, first, forwarded, searchCount, hits>>

\* the key is present and the adapter was given an index and the store
Hit(key) == written[key] # Unset /\ ctor.index = IndexRef /\ ctor.data_store = StoreRef

\* retriever.retrieve(key), the index answering `search` if it is asked
Retrieve(key, search) ==
    /\ adapter # NoAdapter
    /\ searchCount < MaxSearches
    /\ hits < MaxSearches
    /\ LET r == retrieve(adapter, store, key, search)
       IN  /\ store' = r.store
           /\ searchCount' = searchCount + Len(r.calls)
           /\ hits' = IF Hit(key) THEN hits + 1 ELSE hits
           /\ forwarded' = IF r.calls # <<>>
                           THEN [forwarded EXCEPT ![key] = r.calls[Len(r.calls)]]
                           ELSE forwarded
           /\ last' = [op |-> "retrieve", key |-> key, arg |-> Unset, kind |-> r.kind,
                       value |-> r.value, calls |-> r.calls, oracle |-> search,
                       prev |-> forwarded[key]]
    /\ UNCHANGED <<adapter, written, first, ctor>>

Next ==
    \/ \E key \in Keys, document \in Documents : AddDocument(key, document)
    \/ \E key \in Keys : GetDocument(key)
    \/ \E index \in {IndexRef, None}, data_store \in {StoreRef, None} :
           Construct(index, data_store)
    \/ \E key \in Keys, search \in SearchOutcomes : Retrieve(key, search)

Spec == Init /\ [][Next]_vars

TypeOK ==
    /\ DOMAIN store \subseteq Keys
    /\ searchCount \in 0..MaxSearches
    /\ hits \in 0..MaxSearches

\* ---------------------------------------------------------- properties --
\* C1: get_document(k) returns exactly the document of the most recent
\* add_document(k, .) call, whatever calls came in between (read-after-write,
\* last write wins).
C1_ReadAfterWrite ==
    (last.op = "get_document" /\ written[last.key] # Unset)
        => (last.kind = "return" /\ last.value = written[last.key])

\* a key written twice with different documents, searched, then read back
C1_Witness ==
    /\ last.op = "get_document"
    /\ first[last.key] # Unset
    /\ first[last.key] # written[last.key]
    /\ forwarded[last.key] # Unset
    /\ last.value = written[last.key]

\* C2: the store is empty until the first add_document, and get_document(k)
\* returns None for every key k never passed to add_document, whatever other
\* keys were inserted.
C2_NeverInsertedIsAbsent ==
    /\ (\A k \in Keys : written[k] = Unset) => store = EmptyDict
    /\ (last.op = "get_document" /\ written[last.key] = Unset)
           => (last.kind = "return" /\ last.value = None)

\* a never-inserted key is looked up while another key is present
C2_Witness ==
    /\ last.op = "get_document"
    /\ written[last.key] = Unset
    /\ \E j \in Keys : written[j] # Unset
    /\ last.value = None

\* C3: retrieve(k) for a key absent from the store the adapter holds returns
\* None and leaves the number of search invocations as it was.
C3_AbsentKeyNoSearch ==
    [][(last'.op = "retrieve" /\ ctor'.data_store = StoreRef /\ written'[last'.key] = Unset)
          => /\ last'.kind = "return"
             /\ last'.value = None
             /\ last'.calls = <<>>
             /\ searchCount' = searchCount]_vars

\* an absent key is retrieved through an adapter that has already searched
C3_Witness ==
    /\ last.op = "retrieve"
    /\ ctor.index = IndexRef
    /\ ctor.data_store = StoreRef
    /\ written[last.key] = Unset
    /\ last.value = None
    /\ searchCount > 0

\* C4: retrieve(k) for a present key, through an adapter given an index and
\* the store, invokes search exactly once, with the document stored under k,
\* and its caller observes exactly what search answered.
C4_PresentKeySearchedOnce ==
    (last.op = "retrieve" /\ Hit(last.key))
        => /\ last.calls = <<written[last.key]>>
           /\ last.kind = last.oracle.kind
           /\ last.value = last.oracle.value

\* a present key is retrieved and the index's list comes back
C4_Witness ==
    /\ last.op = "retrieve"
    /\ Hit(last.key)
    /\ last.calls = <<Str("X")>>
    /\ last.kind = "return"
    /\ last.value = List("['match-A']")

\* C5: a retrieve or get_document call leaves the store's mapping as it was,
\* for present and absent keys and for every outcome of the call.
C5_ReadsLeaveStoreAlone ==
    [][(last'.op \in {"retrieve", "get_document"}) => store' = store]_vars

\* a retrieve whose search failed, on a non-empty store that has an absent key
C5_Witness ==
    /\ last.op = "retrieve"
    /\ last.kind = "raise"
    /\ last.calls # <<>>
    /\ store # EmptyDict
    /\ DOMAIN store # Keys

\* C6: when search fails during retrieve(k) for a present key, the caller of
\* retrieve gets that same failure, after a single search invocation: it is
\* not caught, translated, retried or replaced by None or another value.
C6_SearchFailurePropagates ==
    (last.op = "retrieve" /\ Hit(last.key) /\ last.oracle.kind = "raise")
        => /\ last.kind = "raise"
           /\ last.value = last.oracle.value
           /\ Len(last.calls) = 1

\* the index timed out and retrieve raised the timeout
C6_Witness ==
    /\ last.op = "retrieve"
    /\ Hit(last.key)
    /\ last.oracle.kind = "raise"
    /\ last.kind = "raise"
    /\ last.value = Exc("TimeoutError", "search timed out")

\* C7: nothing is cached between calls: n retrieve calls on a present key
\* cause n search invocations, and each forwards the document stored at the
\* time of the call, also when an earlier retrieve forwarded another one.
C7_NoCaching ==
    /\ searchCount = hits
    /\ (last.op = "retrieve" /\ Hit(last.key))
           => (last.calls # <<>> /\ last.calls[Len(last.calls)] = written[last.key])

\* retrieve forwarded X, the key was overwritten with Y, retrieve forwards Y
C7_Witness ==
    /\ last.op = "retrieve"
    /\ Hit(last.key)
    /\ last.prev = Str("X")
    /\ written[last.key] = Str("Y")
    /\ last.calls = <<Str("Y")>>
    /\ hits >= 2
    /\ searchCount = hits

\* C8: a present but empty document is not a missing key: get_document
\* returns the empty string, not None, and retrieve searches once with the
\* empty string and returns what search answered.
C8_EmptyDocumentIsPresent ==
    /\ (last.op = "get_document" /\ written[last.key] = Str(""))
           => (last.value = Str("") /\ last.value # None)
    /\ (last.op = "retrieve" /\ Hit(last.key) /\ written[last.key] = Str(""))
           => /\ last.calls = <<Str("")>>
              /\ last.kind = last.oracle.kind
              /\ last.value = last.oracle.value

\* the empty document is retrieved and the index's answer comes back
C8_Witness ==
    /\ last.op = "retrieve"
    /\ Hit(last.key)
    /\ written[last.key] = Str("")
    /\ last.calls = <<Str("")>>
    /\ last.value = List("[]")

\* C9: add_document(k, d) changes only the entry of k: every other key keeps
\* its presence and its document, and no call ever removes a key.
C9_OnlyOwnEntryChanges ==
    [][/\ DOMAIN store \subseteq DOMAIN store'
       /\ (last'.op = "add_document")
              => \A j \in Keys \ {last'.key} :
                     /\ (j \in DOMAIN store') <=> (j \in DOMAIN store)
                     /\ (j \in DOMAIN store) => store'[j] = store[j]]_vars

\* a key is overwritten while the other key holds a document
C9_Witness ==
    /\ last.op = "add_document"
    /\ DOMAIN store = Keys
    /\ first[last.key] # written[last.key]
    /\ \E j \in Keys \ {last.key} : store[j] = written[j]

\* C10: constructing the adapter always returns and stores its arguments as
\* given, None included; with a None index and the store, retrieve fails
\* for a present key (before any search) and returns None for an absent one.
C10_NoValidationAtConstruction ==
    /\ (last.op = "__init__")
           => (last.kind = "return"
               /\ adapter = [index |-> last.arg, data_store |-> last.prev])
    /\ (last.op = "retrieve" /\ ctor.index = None /\ ctor.data_store = StoreRef)
           => IF written[last.key] # Unset
              THEN /\ last.kind = "raise"
                   /\ last.value = NoneAttributeError("'search'")
                   /\ last.calls = <<>>
              ELSE last.kind = "return" /\ last.value = None

\* an adapter built without an index fails when a present key is retrieved
C10_Witness ==
    /\ last.op = "retrieve"
    /\ ctor.index = None
    /\ ctor.data_store = StoreRef
    /\ written[last.key] # Unset
    /\ last.kind = "raise"
====
